---- MODULE Spec2Model ----
(***************************************************************************)
(* Model of the agentic-memory subsystem (src/src/agentic_memory.py):      *)
(* MemoryService over a MongoDB record store (collections messages and     *)
(* memory_nodes) and a Qdrant semantic index (collection "memories").      *)
(*                                                                         *)
(* Conventions                                                             *)
(*  - importance is a float in the source; the model keeps it in tenths,   *)
(*    so 0.3 is 3 and 0.7 is 7.                                            *)
(*  - uuid.uuid4() is a fresh value; the model draws it from one serial    *)
(*    counter per collection.                                              *)
(*  - a text is a sequence of tokens; the sentence encoder is an external  *)
(*    deterministic function text -> vector, modelled as token counts.     *)
(*  - Python's None is the string NoneValue, which is no user id.          *)
(***************************************************************************)
EXTENDS Integers, Sequences, FiniteSets, TLC

VARIABLES
    memory_nodes,   \* mongo.memory_nodes: set of MemoryNode documents
    points,         \* the Qdrant collection: set of points (IndexEntries)
    messages,       \* mongo.messages: sequence of documents, insertion order
    now,            \* the value datetime.utcnow() returns
    memIds,         \* uuids drawn so far for memory nodes
    pointIds,       \* uuids drawn so far for Qdrant points
    msgIds,         \* uuids drawn so far for messages
    ret,            \* the last call: its name, arguments and outcome
    calls           \* the calls in progress: each concurrent caller's frame

vars == <<memory_nodes, points, messages, now, memIds, pointIds, msgIds, ret, calls>>

-----------------------------------------------------------------------------
(* Bounds of the model *)

MaxNodes == 2
MaxMessages == 1
MaxTime == 1
MaxRecallNodes == 4
MaxFuseMems == 2
MaxChat == 2
MaxClockNodes == 2
MaxConcNodes == 1
MaxLiveNodes == 1

Users == {"u1", "u2"}
Sessions == {"A", "B"}
Importances == {3, 4, 7}
NoneValue == "<None>"
ClearArgs == Users \cup {NoneValue, ""}

\* The summary, m_type and raw_refs of a promote_memory call: a call that leaves
\* m_type and raw_refs to their defaults, and a call that gives them.
DefaultArgs ==
    [summary |-> <<1>>, m_type |-> "episodic", raw_refs |-> [given |-> FALSE, val |-> <<>>]]

GivenArgs ==
    [summary |-> <<1, 2>>, m_type |-> "preference", raw_refs |-> [given |-> TRUE, val |-> <<1>>]]

StoredArgs == {DefaultArgs, GivenArgs}

Queries == {<<1, 2>>}

MsgUsers == {"u1"}
MsgSessions == {"A"}
MsgRoles == {"user"}
MsgTexts == {<<1>>}

RecallUsers == {"u1"}
RecallImportances == {4, 7}
RecallQueries == {<<1>>}

ChatClearArgs == {"u1", NoneValue}

\* The callers that may be inside MemoryService at the same time.
Callers == {"c1", "c2"}

\* The frame of a caller that is in no call.
Idle == [pc |-> "idle"]

-----------------------------------------------------------------------------
(* Program constants *)

PROMOTION_THRESHOLD == 3
GLOBAL_RECALL_THRESHOLD == 7
SESSION_LIMIT == 3
GLOBAL_LIMIT == 3
PREVIEW_LEN == 100
DEFAULT_LIMIT == 10

\* The limits given to get_recent_messages: none to return, one, the default.
Limits == {0, 1, DEFAULT_LIMIT}

-----------------------------------------------------------------------------
(* Helpers *)

Min(a, b) == IF a < b THEN a ELSE b

Range(s) == {s[i] : i \in 1..Len(s)}

\* Python truthiness of an optional string: None and "" are falsy.
Truthy(v) == v # NoneValue /\ v # ""

\* raw_refs or []
OrEmptyList(r) == IF r.given /\ r.val # <<>> THEN r.val ELSE <<>>

\* summary[:100]
Preview(text) == SubSeq(text, 1, Min(Len(text), PREVIEW_LEN))

RECURSIVE CountToken(_, _)
CountToken(text, k) ==
    IF text = <<>> THEN 0
    ELSE (IF Head(text) = k THEN 1 ELSE 0) + CountToken(Tail(text), k)

\* store.get_embedding: deterministic text -> vector, one component per token
get_embedding(text) == <<CountToken(text, 1), CountToken(text, 2)>>

Dot(v, w) == v[1] * w[1] + v[2] * w[2]

\* Cosine similarity of q and v, as the fraction num/den of its square over the
\* squared norm of q (vectors have non-negative components, so the squares
\* compare as the cosines do).
Similarity(q, v) == [num |-> Dot(q, v) * Dot(q, v), den |-> Dot(v, v)]

SimGeq(a, b) == a.num * b.den >= b.num * a.den

\* The points of P most similar to the query, sim[x] being the similarity of x.
Nearest(P, sim) == {x \in P : \A y \in P : SimGeq(sim[x], sim[y])}

\* The rankings of the n points of P most similar to the query, most similar
\* first; points of equal similarity come in any order.
RECURSIVE Ranked(_, _, _)
Ranked(P, sim, n) ==
    IF n = 0 THEN {<<>>}
    ELSE UNION {{<<x>> \o t : t \in Ranked(P \ {x}, sim, n - 1)} : x \in Nearest(P, sim)}

\* qdrant.query_points(query=q, query_filter=..., limit=limit).points, P being the
\* points that satisfy the filter
query_points(P, q, limit) ==
    LET sim == [x \in P |-> Similarity(q, x.vector)]
    IN  Ranked(P, sim, Min(limit, Cardinality(P)))

\* Recall across sessions that drops the importance bar.
GlobalFilterAnyImportance(P, user_id, session_id) ==
    {p \in P : p.payload.user_id = user_id /\ p.payload.session_id # session_id}

\* Recall across sessions with a strict importance bar (gt for gte).
GlobalFilterStrict(P, user_id, session_id) ==
    {p \in P : /\ p.payload.user_id = user_id
               /\ p.payload.importance > GLOBAL_RECALL_THRESHOLD
               /\ p.payload.session_id # session_id}

SessionFilter(P, user_id, session_id) ==
    {p \in P : p.payload.user_id = user_id /\ p.payload.session_id = session_id}

GlobalFilter(P, user_id, session_id) ==
    {p \in P : /\ p.payload.user_id = user_id
                    /\ p.payload.importance >= GLOBAL_RECALL_THRESHOLD
                    /\ p.payload.session_id # session_id}

\* An update whose filter matches every node.
touch_memory_every_node(store, memory_id, t) ==
    {[n EXCEPT !.last_used_at = t] : n \in store}

\* mongo.memory_nodes.update_one({"_id": id}, {"$set": {"last_used_at": t}})
touch_memory(store, memory_id, t) ==
    {IF n.id = memory_id THEN [n EXCEPT !.last_used_at = t] ELSE n : n \in store}

\* The loop without the unique_memory_ids test.
RECURSIVE FuseLoopNoDedup(_, _, _, _, _, _)
FuseLoopNoDedup(all_hits, i, unique_memory_ids, final_memories, store, t) ==
    IF i > Len(all_hits) THEN [final_memories |-> final_memories, store |-> store]
    ELSE LET mem_id == all_hits[i].payload.memory_id
             found == {n \in store : n.id = mem_id}
         IN  IF found # {}
             THEN FuseLoopNoDedup(all_hits, i + 1, unique_memory_ids,
                                  Append(final_memories, CHOOSE n \in found : TRUE),
                                  touch_memory(store, mem_id, t), t)
             ELSE FuseLoopNoDedup(all_hits, i + 1, unique_memory_ids,
                                  final_memories, store, t)

\* The loop leaving at the first hit whose node is missing.
RECURSIVE FuseLoopStopOnMiss(_, _, _, _, _, _)
FuseLoopStopOnMiss(all_hits, i, unique_memory_ids, final_memories, store, t) ==
    IF i > Len(all_hits) THEN [final_memories |-> final_memories, store |-> store]
    ELSE LET mem_id == all_hits[i].payload.memory_id
             found == {n \in store : n.id = mem_id}
         IN  IF mem_id \in unique_memory_ids
             THEN FuseLoopStopOnMiss(all_hits, i + 1, unique_memory_ids, final_memories,
                                     store, t)
             ELSE IF found # {}
                  THEN FuseLoopStopOnMiss(all_hits, i + 1, unique_memory_ids \cup {mem_id},
                                          Append(final_memories, CHOOSE n \in found : TRUE),
                                          touch_memory(store, mem_id, t), t)
                  ELSE [final_memories |-> final_memories, store |-> store]

\* The loop of retrieve_context over all_hits: the memories it returns and the
\* record store it leaves.
RECURSIVE FuseLoop(_, _, _, _, _, _)
FuseLoop(all_hits, i, unique_memory_ids, final_memories, store, t) ==
    IF i > Len(all_hits) THEN [final_memories |-> final_memories, store |-> store]
    ELSE LET mem_id == all_hits[i].payload.memory_id
             found == {n \in store : n.id = mem_id}
         IN  IF mem_id \in unique_memory_ids
             THEN FuseLoop(all_hits, i + 1, unique_memory_ids, final_memories, store, t)
             ELSE IF found # {}
                  THEN FuseLoop(all_hits, i + 1, unique_memory_ids \cup {mem_id},
                                Append(final_memories, CHOOSE n \in found : TRUE),
                                touch_memory(store, mem_id, t), t)
                  ELSE FuseLoop(all_hits, i + 1, unique_memory_ids \cup {mem_id},
                                final_memories, store, t)

\* The hits concatenated in the other order.
AllHitsGlobalFirst(session_hits, global_hits) == global_hits \o session_hits

\* all_hits = session_hits + global_hits
AllHits(session_hits, global_hits) == session_hits \o global_hits

Fuse(all_hits, store, t) == FuseLoop(all_hits, 1, {}, <<>>, store, t)

-----------------------------------------------------------------------------
(* State after the module's setup: both stores empty *)

Init ==
    /\ memory_nodes = {}
    /\ points = {}
    /\ messages = <<>>
    /\ now = 0
    /\ memIds = 0
    /\ pointIds = 0
    /\ msgIds = 0
    /\ ret = [op |-> "init"]
    /\ calls = [c \in Callers |-> Idle]

-----------------------------------------------------------------------------
(* Operations of MemoryService *)

add_message(user_id, session_id, role, content) ==
    LET msg_doc == [id |-> msgIds + 1, session_id |-> session_id, user_id |-> user_id,
                    role |-> role, content |-> content, created_at |-> now]
    IN  /\ messages' = Append(messages, msg_doc)
        /\ msgIds' = msgIds + 1
        /\ ret' = [op |-> "add_message", user_id |-> user_id, session_id |-> session_id,
                   result |-> msg_doc.id, raised |-> FALSE]
        /\ UNCHANGED <<memory_nodes, points, now, memIds, pointIds, calls>>

\* A node built without the caller's m_type.
MongoNodeDefaultType(memory_id, user_id, session_id, summary, importance, m_type, raw_refs, timestamp) ==
    [id |-> memory_id, user_id |-> user_id, session_id |-> session_id, type |-> "episodic",
     summary |-> summary, raw_refs |-> OrEmptyList(raw_refs), importance |-> importance,
     last_used_at |-> timestamp, created_at |-> timestamp]

MongoNode(memory_id, user_id, session_id, summary, importance, m_type, raw_refs, timestamp) ==
    [id |-> memory_id, user_id |-> user_id, session_id |-> session_id, type |-> m_type,
     summary |-> summary, raw_refs |-> OrEmptyList(raw_refs), importance |-> importance,
     last_used_at |-> timestamp, created_at |-> timestamp]

PointStruct(point_id, memory_id, user_id, session_id, summary, importance, m_type, timestamp) ==
    [id |-> point_id,
     vector |-> get_embedding(summary),
     payload |-> [memory_id |-> memory_id, user_id |-> user_id, session_id |-> session_id,
                  type |-> m_type, importance |-> importance, created_at |-> timestamp,
                  summary_preview |-> Preview(summary)]]

\* Variants of the test of line 122: the 0.5 of the docstring, gte for gt, no test.
ShouldIndexAboveHalf(importance) == importance > PROMOTION_THRESHOLD + 2

ShouldIndexAtThreshold(importance) == importance >= PROMOTION_THRESHOLD

ShouldIndexAlways(importance) == TRUE

\* The test of line 122.
ShouldIndex(importance) == importance > PROMOTION_THRESHOLD

\* qdrant.upsert: insert, or replace the point of the same id
upsert(P, point) == {p \in P : p.id # point.id} \cup {point}

promote_memory(user_id, session_id, summary, importance, m_type, raw_refs) ==
    LET memory_id == memIds + 1
        timestamp == now
        mongo_node == MongoNode(memory_id, user_id, session_id, summary, importance,
                                m_type, raw_refs, timestamp)
    IN  /\ memIds' = memIds + 1
        /\ memory_nodes' = memory_nodes \cup {mongo_node}
        /\ IF ShouldIndex(importance)
           THEN /\ points' = upsert(points, PointStruct(pointIds + 1, memory_id, user_id,
                                        session_id, summary, importance, m_type, timestamp))
                /\ pointIds' = pointIds + 1
           ELSE UNCHANGED <<points, pointIds>>
        /\ ret' = [op |-> "promote_memory", user_id |-> user_id, session_id |-> session_id,
                   summary |-> summary, importance |-> importance, m_type |-> m_type,
                   raw_refs |-> raw_refs, memory_id |-> memory_id, raised |-> FALSE]
        /\ UNCHANGED <<messages, now, msgIds, calls>>

\* A failing step 2 that undoes step 1.
promote_memory_index_error_rollback(user_id, session_id, summary, importance, m_type, raw_refs) ==
    /\ ShouldIndex(importance)
    /\ memIds' = memIds + 1
    /\ ret' = [op |-> "promote_memory", user_id |-> user_id, session_id |-> session_id,
               summary |-> summary, importance |-> importance, m_type |-> m_type,
               raw_refs |-> raw_refs, memory_id |-> memIds + 1, raised |-> TRUE,
               raised_at |-> "upsert"]
    /\ UNCHANGED <<memory_nodes, points, pointIds, messages, now, msgIds, calls>>

\* promote_memory when self.embed_fn (line 123) or self.qdrant.upsert (line 135)
\* raises: the node is already inserted (line 118), no try encloses the call, and
\* the exception leaves promote_memory.
promote_memory_index_error(user_id, session_id, summary, importance, m_type, raw_refs) ==
    LET memory_id == memIds + 1
        timestamp == now
        mongo_node == MongoNode(memory_id, user_id, session_id, summary, importance,
                                m_type, raw_refs, timestamp)
    IN  /\ ShouldIndex(importance)
        /\ memIds' = memIds + 1
        /\ memory_nodes' = memory_nodes \cup {mongo_node}
        /\ ret' = [op |-> "promote_memory", user_id |-> user_id, session_id |-> session_id,
                   summary |-> summary, importance |-> importance, m_type |-> m_type,
                   raw_refs |-> raw_refs, memory_id |-> memory_id, raised |-> TRUE,
                   raised_at |-> "upsert"]
        /\ UNCHANGED <<points, pointIds, messages, now, msgIds, calls>>

\* add_message when insert_one (line 91) raises: the uuid is drawn, nothing is
\* written, and the exception leaves add_message.
add_message_insert_error(user_id, session_id, role, content) ==
    /\ msgIds' = msgIds + 1
    /\ ret' = [op |-> "add_message", user_id |-> user_id, session_id |-> session_id,
               result |-> msgIds + 1, raised |-> TRUE]
    /\ UNCHANGED <<memory_nodes, points, messages, now, memIds, pointIds, calls>>

\* A promote_memory that writes the index before the record store, whose
\* insert_one then raises.
promote_memory_insert_error_index_first(user_id, session_id, summary, importance, m_type, raw_refs) ==
    /\ memIds' = memIds + 1
    /\ IF ShouldIndex(importance)
       THEN /\ points' = upsert(points, PointStruct(pointIds + 1, memIds + 1, user_id,
                                    session_id, summary, importance, m_type, now))
            /\ pointIds' = pointIds + 1
       ELSE UNCHANGED <<points, pointIds>>
    /\ ret' = [op |-> "promote_memory", user_id |-> user_id, session_id |-> session_id,
               summary |-> summary, importance |-> importance, m_type |-> m_type,
               raw_refs |-> raw_refs, memory_id |-> memIds + 1, raised |-> TRUE,
               raised_at |-> "insert_one"]
    /\ UNCHANGED <<memory_nodes, messages, now, msgIds, calls>>

\* promote_memory when insert_one (line 118) raises: the uuid is drawn, nothing
\* is written, no try encloses the call, and the exception leaves promote_memory
\* before the test of line 122.
promote_memory_insert_error(user_id, session_id, summary, importance, m_type, raw_refs) ==
    /\ memIds' = memIds + 1
    /\ ret' = [op |-> "promote_memory", user_id |-> user_id, session_id |-> session_id,
               summary |-> summary, importance |-> importance, m_type |-> m_type,
               raw_refs |-> raw_refs, memory_id |-> memIds + 1, raised |-> TRUE,
               raised_at |-> "insert_one"]
    /\ UNCHANGED <<memory_nodes, points, pointIds, messages, now, msgIds, calls>>

retrieve_context(user_id, session_id, query) ==
    LET query_vector == get_embedding(query) IN
    \E session_hits \in query_points(SessionFilter(points, user_id, session_id), query_vector,
                                     SESSION_LIMIT) :
    \E global_hits \in query_points(GlobalFilter(points, user_id, session_id), query_vector,
                                    GLOBAL_LIMIT) :
        LET all_hits == AllHits(session_hits, global_hits)
            fused == Fuse(all_hits, memory_nodes, now)
        IN  /\ memory_nodes' = fused.store
            /\ ret' = [op |-> "retrieve_context", user_id |-> user_id,
                       session_id |-> session_id, query |-> query,
                       session_hits |-> session_hits, global_hits |-> global_hits,
                       result |-> fused.final_memories]
            /\ UNCHANGED <<points, messages, now, memIds, pointIds, msgIds, calls>>

\* A per-user clear whose Qdrant filter is empty.
clear_memories_all_points(user_id) ==
    /\ IF Truthy(user_id)
       THEN memory_nodes' = {n \in memory_nodes : n.user_id # user_id}
       ELSE memory_nodes' = {}
    /\ points' = {}
    /\ ret' = [op |-> "clear_memories", user_id |-> user_id,
               deleted_count |-> Cardinality(memory_nodes) - Cardinality(memory_nodes')]
    /\ UNCHANGED <<messages, now, memIds, pointIds, msgIds, calls>>

\* A clear whose filters name a field no document has: they match nothing.
clear_memories_wrong_field(user_id) ==
    /\ IF Truthy(user_id)
       THEN UNCHANGED <<memory_nodes, points>>
       ELSE /\ memory_nodes' = {}
            /\ points' = {}
    /\ ret' = [op |-> "clear_memories", user_id |-> user_id,
               deleted_count |-> Cardinality(memory_nodes) - Cardinality(memory_nodes')]
    /\ UNCHANGED <<messages, now, memIds, pointIds, msgIds, calls>>

\* A clear that deletes from the record store only.
clear_memories_mongo_only(user_id) ==
    /\ IF Truthy(user_id)
       THEN memory_nodes' = {n \in memory_nodes : n.user_id # user_id}
       ELSE memory_nodes' = {}
    /\ ret' = [op |-> "clear_memories", user_id |-> user_id,
               deleted_count |-> Cardinality(memory_nodes) - Cardinality(memory_nodes')]
    /\ UNCHANGED <<points, messages, now, memIds, pointIds, msgIds, calls>>

\* A clear that uses delete_one for delete_many.
clear_memories_delete_one(user_id) ==
    LET matched == IF Truthy(user_id) THEN {n \in memory_nodes : n.user_id = user_id}
                   ELSE memory_nodes
    IN  /\ memory_nodes' = IF matched = {} THEN memory_nodes
                           ELSE memory_nodes \ {CHOOSE n \in matched : TRUE}
        /\ points' = IF Truthy(user_id) THEN {p \in points : p.payload.user_id # user_id}
                     ELSE {}
        /\ ret' = [op |-> "clear_memories", user_id |-> user_id,
                   deleted_count |-> Cardinality(memory_nodes) - Cardinality(memory_nodes')]
        /\ UNCHANGED <<messages, now, memIds, pointIds, msgIds, calls>>

\* A clear that deletes the messages with the memories.
clear_memories_with_messages(user_id) ==
    /\ IF Truthy(user_id)
       THEN /\ memory_nodes' = {n \in memory_nodes : n.user_id # user_id}
            /\ points' = {p \in points : p.payload.user_id # user_id}
            /\ messages' = SelectSeq(messages, LAMBDA m : m.user_id # user_id)
       ELSE /\ memory_nodes' = {}
            /\ points' = {}
            /\ messages' = <<>>
    /\ ret' = [op |-> "clear_memories", user_id |-> user_id,
               deleted_count |-> Cardinality(memory_nodes) - Cardinality(memory_nodes')]
    /\ UNCHANGED <<now, memIds, pointIds, msgIds, calls>>

clear_memories(user_id) ==
    /\ IF Truthy(user_id)
       THEN /\ memory_nodes' = {n \in memory_nodes : n.user_id # user_id}
            /\ points' = {p \in points : p.payload.user_id # user_id}
       ELSE /\ memory_nodes' = {}
            /\ points' = {}
    /\ ret' = [op |-> "clear_memories", user_id |-> user_id,
               deleted_count |-> Cardinality(memory_nodes) - Cardinality(memory_nodes')]
    /\ UNCHANGED <<messages, now, memIds, pointIds, msgIds, calls>>

\* cursor.sort("created_at", DESCENDING) over the documents of S: newest first,
\* documents of equal created_at in any order.
RECURSIVE SortDescending(_)
SortDescending(S) ==
    IF S = {} THEN {<<>>}
    ELSE UNION {{<<x>> \o t : t \in SortDescending(S \ {x})} :
                    x \in {y \in S : \A z \in S : y.created_at >= z.created_at}}

\* cursor.limit(limit): the first limit documents; MongoDB reads a limit of 0 as
\* no limit.
Limit(docs, limit) ==
    IF limit = 0 THEN docs ELSE SubSeq(docs, 1, Min(limit, Len(docs)))

\* list(cursor)[::-1]
Reverse(docs) == [i \in 1..Len(docs) |-> docs[Len(docs) + 1 - i]]

get_recent_messages(session_id, limit) ==
    LET found == {messages[i] : i \in {j \in 1..Len(messages) :
                                          messages[j].session_id = session_id}}
    IN  \E cursor \in SortDescending(found) :
            /\ ret' = [op |-> "get_recent_messages", session_id |-> session_id,
                       limit |-> limit, result |-> Reverse(Limit(cursor, limit))]
            /\ UNCHANGED <<memory_nodes, points, messages, now, memIds, pointIds, msgIds,
                           calls>>

\* Time passes between calls.
Tick ==
    /\ now < MaxTime
    /\ now' = now + 1
    /\ UNCHANGED <<memory_nodes, points, messages, memIds, pointIds, msgIds, ret, calls>>

-----------------------------------------------------------------------------
(* The operations step by step, for callers that run at the same time. A     *)
(* step is one access to a store or to the clock: the stores serialise the   *)
(* accesses, nothing serialises the calls. calls[c] is the frame of caller   *)
(* c: its place in the call and its locals, or what its last call returned.  *)

CanCall(c) == calls[c].pc \in {"idle", "returned"}

\* promote_memory up to insert_one (lines 103-118)
promote_memory_insert(c, user_id, session_id, summary, importance, m_type, raw_refs) ==
    LET memory_id == memIds + 1
        timestamp == now
        mongo_node == MongoNode(memory_id, user_id, session_id, summary, importance,
                                m_type, raw_refs, timestamp)
    IN  /\ CanCall(c)
        /\ memIds' = memIds + 1
        /\ memory_nodes' = memory_nodes \cup {mongo_node}
        /\ calls' = [calls EXCEPT ![c] =
                        [pc |-> "promote_index", memory_id |-> memory_id,
                         user_id |-> user_id, session_id |-> session_id,
                         summary |-> summary, importance |-> importance,
                         m_type |-> m_type, timestamp |-> timestamp]]
        /\ UNCHANGED <<points, pointIds, messages, now, msgIds, ret>>

\* A second step that returns without the upsert.
promote_memory_index_skipped(c) ==
    LET f == calls[c]
    IN  /\ f.pc = "promote_index"
        /\ calls' = [calls EXCEPT ![c] =
                        [pc |-> "returned", op |-> "promote_memory",
                         memory_id |-> f.memory_id, user_id |-> f.user_id,
                         importance |-> f.importance]]
        /\ UNCHANGED <<memory_nodes, points, pointIds, messages, now, memIds, msgIds, ret>>

\* promote_memory from the test of line 122 to its end (lines 122-145)
promote_memory_index(c) ==
    LET f == calls[c]
    IN  /\ f.pc = "promote_index"
        /\ IF ShouldIndex(f.importance)
           THEN /\ points' = upsert(points, PointStruct(pointIds + 1, f.memory_id, f.user_id,
                                        f.session_id, f.summary, f.importance, f.m_type,
                                        f.timestamp))
                /\ pointIds' = pointIds + 1
           ELSE UNCHANGED <<points, pointIds>>
        /\ calls' = [calls EXCEPT ![c] =
                        [pc |-> "returned", op |-> "promote_memory",
                         memory_id |-> f.memory_id, user_id |-> f.user_id,
                         importance |-> f.importance]]
        /\ UNCHANGED <<memory_nodes, messages, now, memIds, msgIds, ret>>

\* clear_memories up to delete_many (lines 228-233, or 253-257)
clear_memories_nodes(c, user_id) ==
    /\ CanCall(c)
    /\ memory_nodes' = IF Truthy(user_id)
                       THEN {n \in memory_nodes : n.user_id # user_id}
                       ELSE {}
    /\ calls' = [calls EXCEPT ![c] =
                    [pc |-> "clear_points", user_id |-> user_id,
                     deleted_count |-> Cardinality(memory_nodes) - Cardinality(memory_nodes')]]
    /\ UNCHANGED <<points, pointIds, messages, now, memIds, msgIds, ret>>

\* A second step whose filter is empty in both branches.
clear_memories_points_all(c) ==
    LET f == calls[c]
    IN  /\ f.pc = "clear_points"
        /\ points' = {}
        /\ calls' = [calls EXCEPT ![c] =
                        [pc |-> "returned", op |-> "clear_memories", user_id |-> f.user_id,
                         deleted_count |-> f.deleted_count,
                         deleted_points |-> Cardinality(points) - Cardinality(points')]]
        /\ UNCHANGED <<memory_nodes, pointIds, messages, now, memIds, msgIds, ret>>

\* clear_memories from qdrant.delete to its end (lines 237-251, or 260-266);
\* deleted_points is what the delete removed, which Qdrant does not report.
clear_memories_points(c) ==
    LET f == calls[c]
    IN  /\ f.pc = "clear_points"
        /\ points' = IF Truthy(f.user_id)
                     THEN {p \in points : p.payload.user_id # f.user_id}
                     ELSE {}
        /\ calls' = [calls EXCEPT ![c] =
                        [pc |-> "returned", op |-> "clear_memories", user_id |-> f.user_id,
                         deleted_count |-> f.deleted_count,
                         deleted_points |-> Cardinality(points) - Cardinality(points')]]
        /\ UNCHANGED <<memory_nodes, pointIds, messages, now, memIds, msgIds, ret>>

\* retrieve_context up to the session-local query (lines 152-166)
retrieve_context_session(c, user_id, session_id, query) ==
    /\ CanCall(c)
    /\ \E session_hits \in query_points(SessionFilter(points, user_id, session_id),
                                         get_embedding(query), SESSION_LIMIT) :
          calls' = [calls EXCEPT ![c] =
                       [pc |-> "retrieve_global", user_id |-> user_id,
                        session_id |-> session_id, query |-> query,
                        session_hits |-> session_hits]]
    /\ UNCHANGED <<memory_nodes, points, pointIds, messages, now, memIds, msgIds, ret>>

\* the cross-session query and the start of the loop (lines 169-188)
retrieve_context_global(c) ==
    LET f == calls[c]
    IN  /\ f.pc = "retrieve_global"
        /\ \E global_hits \in query_points(GlobalFilter(points, f.user_id, f.session_id),
                                            get_embedding(f.query), GLOBAL_LIMIT) :
              calls' = [calls EXCEPT ![c] =
                           [pc |-> "retrieve_loop", user_id |-> f.user_id,
                            session_id |-> f.session_id,
                            all_hits |-> AllHits(f.session_hits, global_hits), i |-> 1,
                            unique_memory_ids |-> {}, final_memories |-> <<>>]]
        /\ UNCHANGED <<memory_nodes, points, pointIds, messages, now, memIds, msgIds, ret>>

\* one turn of the loop up to the append (lines 190-198)
retrieve_context_hit(c) ==
    LET f == calls[c]
    IN  /\ f.pc = "retrieve_loop"
        /\ f.i <= Len(f.all_hits)
        /\ LET mem_id == f.all_hits[f.i].payload.memory_id
               found == {n \in memory_nodes : n.id = mem_id}
           IN  calls' = [calls EXCEPT ![c] =
                   IF mem_id \in f.unique_memory_ids
                   THEN [f EXCEPT !.i = f.i + 1]
                   ELSE IF found # {}
                        THEN [pc |-> "retrieve_now", user_id |-> f.user_id,
                              session_id |-> f.session_id, all_hits |-> f.all_hits,
                              i |-> f.i,
                              unique_memory_ids |-> f.unique_memory_ids \cup {mem_id},
                              final_memories |-> Append(f.final_memories,
                                                        CHOOSE n \in found : TRUE),
                              mem_id |-> mem_id]
                        ELSE [f EXCEPT !.i = f.i + 1,
                                       !.unique_memory_ids = f.unique_memory_ids \cup {mem_id}]]
        /\ UNCHANGED <<memory_nodes, points, pointIds, messages, now, memIds, msgIds, ret>>

\* _touch_memory reads the clock (line 207)
retrieve_context_now(c) ==
    LET f == calls[c]
    IN  /\ f.pc = "retrieve_now"
        /\ calls' = [calls EXCEPT ![c] =
                        [pc |-> "retrieve_update", user_id |-> f.user_id,
                         session_id |-> f.session_id, all_hits |-> f.all_hits, i |-> f.i,
                         unique_memory_ids |-> f.unique_memory_ids,
                         final_memories |-> f.final_memories, mem_id |-> f.mem_id,
                         t |-> now]]
        /\ UNCHANGED <<memory_nodes, points, pointIds, messages, now, memIds, msgIds, ret>>

\* the store applies the update_one of _touch_memory (lines 205-208)
retrieve_context_update(c) ==
    LET f == calls[c]
    IN  /\ f.pc = "retrieve_update"
        /\ memory_nodes' = touch_memory(memory_nodes, f.mem_id, f.t)
        /\ calls' = [calls EXCEPT ![c] =
                        [pc |-> "retrieve_loop", user_id |-> f.user_id,
                         session_id |-> f.session_id, all_hits |-> f.all_hits,
                         i |-> f.i + 1, unique_memory_ids |-> f.unique_memory_ids,
                         final_memories |-> f.final_memories]]
        /\ UNCHANGED <<points, pointIds, messages, now, memIds, msgIds, ret>>

\* return final_memories (line 201)
retrieve_context_return(c) ==
    LET f == calls[c]
    IN  /\ f.pc = "retrieve_loop"
        /\ f.i > Len(f.all_hits)
        /\ calls' = [calls EXCEPT ![c] =
                        [pc |-> "returned", op |-> "retrieve_context",
                         user_id |-> f.user_id, session_id |-> f.session_id,
                         result |-> f.final_memories]]
        /\ UNCHANGED <<memory_nodes, points, pointIds, messages, now, memIds, msgIds, ret>>

-----------------------------------------------------------------------------
(* One caller, one call at a time, no store failure *)

AddMessage ==
    /\ msgIds < MaxMessages
    /\ \E u \in MsgUsers, s \in MsgSessions, r \in MsgRoles, c \in MsgTexts :
          add_message(u, s, r, c)

PromoteMemory ==
    /\ memIds < MaxNodes
    /\ \E u \in Users, s \in Sessions, i \in Importances, a \in StoredArgs :
          promote_memory(u, s, a.summary, i, a.m_type, a.raw_refs)

RetrieveContext ==
    \E u \in Users, s \in Sessions, q \in Queries : retrieve_context(u, s, q)

ClearMemories ==
    \E u \in ClearArgs : clear_memories(u)

Next ==
    \/ AddMessage
    \/ PromoteMemory
    \/ RetrieveContext
    \/ ClearMemories

Spec == Init /\ [][Next]_vars

-----------------------------------------------------------------------------
(* The same caller when step 2 of promote_memory may fail *)

PromoteFailOk ==
    /\ memIds < MaxNodes
    /\ \E u \in Users, s \in Sessions, i \in Importances, a \in {DefaultArgs} :
          promote_memory(u, s, a.summary, i, a.m_type, a.raw_refs)

PromoteMemoryIndexError ==
    /\ memIds < MaxNodes
    /\ \E u \in Users, s \in Sessions, i \in Importances, a \in {DefaultArgs} :
          promote_memory_index_error(u, s, a.summary, i, a.m_type, a.raw_refs)

RetrieveFail ==
    \E u \in Users, s \in Sessions, q \in RecallQueries : retrieve_context(u, s, q)

NextFail ==
    \/ PromoteFailOk
    \/ PromoteMemoryIndexError
    \/ RetrieveFail
    \/ ClearMemories

SpecFail == Init /\ [][NextFail]_vars

-----------------------------------------------------------------------------
(* The same caller when any write of promote_memory or add_message may fail *)

PromoteMemoryInsertError ==
    /\ memIds < MaxNodes
    /\ \E u \in Users, s \in Sessions, i \in Importances, a \in {DefaultArgs} :
          promote_memory_insert_error(u, s, a.summary, i, a.m_type, a.raw_refs)

AddMessageInsertError ==
    /\ msgIds < MaxMessages
    /\ \E u \in MsgUsers, s \in MsgSessions, r \in MsgRoles, c \in MsgTexts :
          add_message_insert_error(u, s, r, c)

NextStoreFail ==
    \/ AddMessage
    \/ AddMessageInsertError
    \/ PromoteFailOk
    \/ PromoteMemoryInsertError
    \/ PromoteMemoryIndexError
    \/ RetrieveFail
    \/ ClearMemories

SpecStoreFail == Init /\ [][NextStoreFail]_vars

-----------------------------------------------------------------------------
(* One user with enough memories for the limits of the two recalls to bind *)

PromoteRecall ==
    /\ memIds < MaxRecallNodes
    /\ \E u \in RecallUsers, s \in Sessions, i \in RecallImportances, a \in {DefaultArgs} :
          promote_memory(u, s, a.summary, i, a.m_type, a.raw_refs)

RetrieveRecall ==
    \E u \in RecallUsers, s \in Sessions, q \in RecallQueries : retrieve_context(u, s, q)

ClearRecall ==
    \E u \in RecallUsers : clear_memories(u)

NextRecall ==
    \/ PromoteRecall
    \/ RetrieveRecall
    \/ ClearRecall

SpecRecall == Init /\ [][NextRecall]_vars

-----------------------------------------------------------------------------
(* retrieve_context over a collection that already holds points: the Qdrant  *)
(* collection outlives the process (initialize_schema creates it only when   *)
(* absent), so a memory may have points under several sessions, several      *)
(* points under one session, or points whose node is gone. Every point here  *)
(* is as similar to the query as every other, so a query may rank them in    *)
(* any order.                                                                *)

FuseNode(m) ==
    MongoNode(m, "u1", "A", DefaultArgs.summary, GLOBAL_RECALL_THRESHOLD,
              DefaultArgs.m_type, DefaultArgs.raw_refs, 0)

\* The points a memory may have, as <<memory id, session, serial>>: one under
\* session A and one under session B, and for memory 1 a second one under A.
FuseSlots ==
    {<<m, "A", 1>> : m \in 1..MaxFuseMems} \cup {<<m, "B", 2>> : m \in 1..MaxFuseMems}
        \cup {<<1, "A", 3>>}

FusePoints ==
    {PointStruct((k[1] - 1) * 3 + k[3], k[1], "u1", k[2], DefaultArgs.summary,
                 GLOBAL_RECALL_THRESHOLD, DefaultArgs.m_type, 0) : k \in FuseSlots}

InitFuse ==
    /\ memory_nodes \in SUBSET {FuseNode(m) : m \in 1..MaxFuseMems}
    /\ points \in SUBSET FusePoints
    /\ messages = <<>>
    /\ now = 0
    /\ memIds = MaxFuseMems
    /\ pointIds = Cardinality(FusePoints)
    /\ msgIds = 0
    /\ ret = [op |-> "init"]
    /\ calls = [c \in Callers |-> Idle]

NextFuse == RetrieveRecall

SpecFuse == InitFuse /\ [][NextFuse]_vars

-----------------------------------------------------------------------------
(* One caller, one call at a time, all five operations, the clock standing   *)
(* still                                                                     *)

AddMessageChat ==
    /\ msgIds < MaxChat
    /\ \E u \in MsgUsers, s \in Sessions, r \in MsgRoles, c \in MsgTexts :
          add_message(u, s, r, c)

PromoteChat ==
    /\ memIds < MaxNodes
    /\ \E u \in RecallUsers, s \in Sessions, i \in Importances, a \in {DefaultArgs} :
          promote_memory(u, s, a.summary, i, a.m_type, a.raw_refs)

RetrieveChat ==
    \E u \in RecallUsers, s \in Sessions, q \in RecallQueries : retrieve_context(u, s, q)

GetRecentChat ==
    \E s \in Sessions, l \in Limits : get_recent_messages(s, l)

ClearChat ==
    \E u \in ChatClearArgs : clear_memories(u)

NextChat ==
    \/ AddMessageChat
    \/ PromoteChat
    \/ RetrieveChat
    \/ GetRecentChat
    \/ ClearChat

SpecChat == Init /\ [][NextChat]_vars

-----------------------------------------------------------------------------
(* One caller that adds and reads messages, with time passing between calls  *)

NextRecent ==
    \/ AddMessageChat
    \/ GetRecentChat
    \/ ClearChat
    \/ Tick

SpecRecent == Init /\ [][NextRecent]_vars

-----------------------------------------------------------------------------
(* One caller that promotes and retrieves, with time passing between calls   *)

PromoteClock ==
    /\ memIds < MaxClockNodes
    /\ \E u \in RecallUsers, s \in Sessions, i \in RecallImportances, a \in {DefaultArgs} :
          promote_memory(u, s, a.summary, i, a.m_type, a.raw_refs)

NextClock ==
    \/ AddMessage
    \/ PromoteClock
    \/ RetrieveChat
    \/ Tick

SpecClock == Init /\ [][NextClock]_vars

-----------------------------------------------------------------------------
(* Callers that promote and retrieve at the same time, with time passing; no  *)
(* store fails and nobody clears.                                             *)

PromoteInsertConc ==
    /\ memIds < MaxConcNodes
    /\ \E c \in Callers, u \in RecallUsers, s \in Sessions, i \in Importances,
             a \in {DefaultArgs} :
          promote_memory_insert(c, u, s, a.summary, i, a.m_type, a.raw_refs)

PromoteIndexConc == \E c \in Callers : promote_memory_index(c)

RetrieveSessionConc ==
    \E c \in Callers, u \in RecallUsers, s \in Sessions, q \in RecallQueries :
        retrieve_context_session(c, u, s, q)

RetrieveGlobalConc == \E c \in Callers : retrieve_context_global(c)

RetrieveHitConc == \E c \in Callers : retrieve_context_hit(c)

RetrieveNowConc == \E c \in Callers : retrieve_context_now(c)

RetrieveUpdateConc == \E c \in Callers : retrieve_context_update(c)

RetrieveReturnConc == \E c \in Callers : retrieve_context_return(c)

NextConc ==
    \/ PromoteInsertConc
    \/ PromoteIndexConc
    \/ RetrieveSessionConc
    \/ RetrieveGlobalConc
    \/ RetrieveHitConc
    \/ RetrieveNowConc
    \/ RetrieveUpdateConc
    \/ RetrieveReturnConc
    \/ Tick

SpecConc == Init /\ [][NextConc]_vars

-----------------------------------------------------------------------------
(* Callers that promote and retrieve at the same time, the clock standing     *)
(* still; no store fails and nobody clears. A call that has started goes on: *)
(* the step of promote_memory after its insert is taken if it stays          *)
(* possible.                                                                 *)

PromoteInsertLive ==
    /\ memIds < MaxLiveNodes
    /\ \E c \in Callers, u \in RecallUsers, s \in Sessions, i \in Importances,
             a \in {DefaultArgs} :
          promote_memory_insert(c, u, s, a.summary, i, a.m_type, a.raw_refs)

NextLive ==
    \/ PromoteInsertLive
    \/ PromoteIndexConc
    \/ RetrieveSessionConc
    \/ RetrieveGlobalConc
    \/ RetrieveHitConc
    \/ RetrieveNowConc
    \/ RetrieveUpdateConc
    \/ RetrieveReturnConc

SpecLive ==
    Init /\ [][NextLive]_vars /\ \A c \in Callers : WF_vars(promote_memory_index(c))

-----------------------------------------------------------------------------
(* Two callers, one call each, at the same time over empty stores: a         *)
(* promote_memory and a clear_memories, or two of one kind                   *)

PromoteInsertRace ==
    \E c \in Callers :
        /\ calls[c] = Idle
        /\ \E u \in Users, s \in Sessions, i \in Importances, a \in {DefaultArgs} :
              promote_memory_insert(c, u, s, a.summary, i, a.m_type, a.raw_refs)

ClearNodesRace ==
    \E c \in Callers :
        /\ calls[c] = Idle
        /\ \E u \in ClearArgs : clear_memories_nodes(c, u)

ClearPointsRace == \E c \in Callers : clear_memories_points(c)

NextRace ==
    \/ PromoteInsertRace
    \/ PromoteIndexConc
    \/ ClearNodesRace
    \/ ClearPointsRace

SpecRace == Init /\ [][NextRace]_vars

-----------------------------------------------------------------------------
(* Properties *)

Promoted == ret.op = "promote_memory"

Retrieved == ret.op = "retrieve_context"

EntriesOf(memory_id) == {p \in points : p.payload.memory_id = memory_id}

NodeIds == {n.id : n \in memory_nodes}

ResultIds == [i \in 1..Len(ret.result) |-> ret.result[i].id]

HitIds(hits) == [i \in 1..Len(hits) |-> hits[i].payload.memory_id]

\* C1: after a promote_memory call with importance above 0.3 has returned, the
\* index holds exactly one point whose payload.memory_id is the id of the node
\* the call wrote, and its payload carries the call's user_id, session_id, type
\* and importance.
C1_PromotedAboveThresholdIndexedOnce ==
    (Promoted /\ ~ret.raised /\ ret.importance > PROMOTION_THRESHOLD) =>
        /\ Cardinality(EntriesOf(ret.memory_id)) = 1
        /\ \A p \in EntriesOf(ret.memory_id) :
              /\ p.payload.user_id = ret.user_id
              /\ p.payload.session_id = ret.session_id
              /\ p.payload.type = ret.m_type
              /\ p.payload.importance = ret.importance

\* A promote above the threshold has returned while the index holds another entry.
C1_Witness ==
    /\ Promoted /\ ~ret.raised
    /\ ret.importance = PROMOTION_THRESHOLD + 1
    /\ ret.m_type = GivenArgs.m_type
    /\ Cardinality(points) = 2

\* C2: a promote_memory call with importance at or below 0.3 leaves the set of
\* points as it was, and no point refers to the node it wrote.
C2_PromotedAtOrBelowThresholdNotIndexed ==
    [][(memIds' # memIds /\ ret'.importance <= PROMOTION_THRESHOLD) =>
          /\ points' = points
          /\ \A p \in points' : p.payload.memory_id # ret'.memory_id]_vars

\* A promote at exactly the threshold has returned while the index is not empty.
C2_Witness ==
    /\ Promoted /\ ~ret.raised
    /\ ret.importance = PROMOTION_THRESHOLD
    /\ points # {}

\* C3: every promote_memory call, whatever its importance, adds exactly one node,
\* with an id no existing node has, the caller's user_id, session_id, type,
\* summary and importance, raw_refs empty when none are given, and leaves every
\* existing node as it was.
C3_PromoteWritesOneNode ==
    [][memIds' # memIds =>
          /\ memory_nodes \subseteq memory_nodes'
          /\ Cardinality(memory_nodes' \ memory_nodes) = 1
          /\ \A n \in memory_nodes' \ memory_nodes :
                /\ n.id = ret'.memory_id
                /\ \A m \in memory_nodes : m.id # n.id
                /\ n.user_id = ret'.user_id
                /\ n.session_id = ret'.session_id
                /\ n.type = ret'.m_type
                /\ n.summary = ret'.summary
                /\ n.importance = ret'.importance
                /\ (~ret'.raw_refs.given => n.raw_refs = <<>>)
                /\ (ret'.raw_refs.given => n.raw_refs = ret'.raw_refs.val)]_vars

\* A promote at the threshold, with no raw_refs, has added a second node.
C3_Witness ==
    /\ Promoted /\ ~ret.raised
    /\ ret.importance = PROMOTION_THRESHOLD
    /\ ~ret.raw_refs.given
    /\ Cardinality(memory_nodes) = 2

\* C4: in every state that complete calls reach, a node of the record store has a
\* point in the index if and only if its importance is above 0.3.
C4_IndexedIffAboveThreshold ==
    \A n \in memory_nodes :
        (EntriesOf(n.id) # {}) <=> (n.importance > PROMOTION_THRESHOLD)

\* A per-user clear has deleted a node and left an indexed node of another user.
C4_Witness ==
    /\ ret.op = "clear_memories"
    /\ Truthy(ret.user_id)
    /\ ret.deleted_count >= 1
    /\ \E n \in memory_nodes : n.importance > PROMOTION_THRESHOLD /\ EntriesOf(n.id) # {}

\* C5 as stated: a promote_memory call above the threshold whose step 2 failed
\* (it left no point for its node) completes normally, raising nothing, and its
\* node stays in the record store.
C5_StepTwoFailureNotRaised ==
    (Promoted /\ ret.importance > PROMOTION_THRESHOLD /\ EntriesOf(ret.memory_id) = {}) =>
        /\ ~ret.raised
        /\ ret.memory_id \in NodeIds

\* C5 amended: a promote_memory call above the threshold whose step 2 failed does
\* not roll back step 1: the node it wrote stays in the record store, with the
\* caller's fields, and no point refers to it; the error is not caught, it
\* leaves promote_memory and reaches the caller.
C5_StepTwoFailureKeepsNodeAndRaises ==
    /\ (Promoted /\ ret.importance > PROMOTION_THRESHOLD /\ EntriesOf(ret.memory_id) = {})
          => ret.raised
    /\ (Promoted /\ ret.raised) =>
          /\ ret.importance > PROMOTION_THRESHOLD
          /\ EntriesOf(ret.memory_id) = {}
          /\ \E n \in memory_nodes :
                /\ n.id = ret.memory_id
                /\ n.user_id = ret.user_id
                /\ n.session_id = ret.session_id
                /\ n.summary = ret.summary
                /\ n.importance = ret.importance

\* Step 2 of a promote has failed while another node is in the record store.
C5_Witness ==
    /\ Promoted /\ ret.raised
    /\ Cardinality(memory_nodes) = 2
    /\ points # {}

\* C6: every node retrieve_context returns belongs to the user of the call, and is
\* of the session of the call or has importance at least 0.7.
C6_RetrievedWithinUserAndSessionOrImportant ==
    Retrieved =>
        \A i \in 1..Len(ret.result) :
            /\ ret.result[i].user_id = ret.user_id
            /\ \/ ret.result[i].session_id = ret.session_id
               \/ ret.result[i].importance >= GLOBAL_RECALL_THRESHOLD

\* A retrieval has returned a node of another session at exactly 0.7 and left out an
\* indexed node of another session below 0.7.
C6_Witness ==
    /\ Retrieved
    /\ Len(ret.result) = 1
    /\ ret.result[1].session_id # ret.session_id
    /\ ret.result[1].importance = GLOBAL_RECALL_THRESHOLD
    /\ \E p \in points : /\ p.payload.user_id = ret.user_id
                          /\ p.payload.session_id # ret.session_id
                          /\ p.payload.importance < GLOBAL_RECALL_THRESHOLD

\* The state of scenario A: two promotes and no other, M1 above the threshold and
\* then M2 at or below it, by the user and in the session of the last retrieval.
ScenarioA(m1, m2) ==
    /\ memIds = 2
    /\ m1.id = 1 /\ m2.id = 2
    /\ m1.importance > PROMOTION_THRESHOLD
    /\ m2.importance <= PROMOTION_THRESHOLD
    /\ m1.user_id = ret.user_id /\ m2.user_id = ret.user_id
    /\ m1.session_id = ret.session_id /\ m2.session_id = ret.session_id

\* C7: in scenario A the retrieval of that user in that session returns M1 and
\* not M2; and no retrieval ever returns a node of importance at or below 0.3.
C7_ScenarioA ==
    Retrieved =>
        /\ \A i \in 1..Len(ret.result) : ret.result[i].importance > PROMOTION_THRESHOLD
        /\ \A m1, m2 \in memory_nodes :
              ScenarioA(m1, m2) =>
                  /\ \E i \in 1..Len(ret.result) : ret.result[i].id = m1.id
                  /\ \A i \in 1..Len(ret.result) : ret.result[i].id # m2.id

\* Scenario A has happened, with M2 at exactly the threshold.
C7_Witness ==
    /\ Retrieved
    /\ \E m1, m2 \in memory_nodes :
          /\ ScenarioA(m1, m2)
          /\ m2.importance = PROMOTION_THRESHOLD
          /\ ResultIds = <<m1.id>>

\* The indexed memories of the user of the last retrieval that cross-session
\* recall may return.
CrossCandidates ==
    {p \in points : /\ p.payload.user_id = ret.user_id
                    /\ p.payload.session_id # ret.session_id
                    /\ p.payload.importance >= GLOBAL_RECALL_THRESHOLD}

\* C8: when the user has at most 3 indexed memories of importance at least 0.7
\* outside the session of the call, retrieve_context returns every node of that
\* user promoted in another session with importance at least 0.7.
C8_ScenarioB ==
    (Retrieved /\ Cardinality(CrossCandidates) <= GLOBAL_LIMIT) =>
        \A n \in memory_nodes :
            (/\ n.user_id = ret.user_id
             /\ n.session_id # ret.session_id
             /\ n.importance >= GLOBAL_RECALL_THRESHOLD)
                => \E i \in 1..Len(ret.result) : ret.result[i].id = n.id

\* A retrieval with no session-local hit has returned 3 nodes of another session,
\* one of them at exactly 0.7.
C8_Witness ==
    /\ Retrieved
    /\ ret.session_hits = <<>>
    /\ Len(ret.result) = GLOBAL_LIMIT
    /\ \E i \in 1..Len(ret.result) :
          /\ ret.result[i].importance = GLOBAL_RECALL_THRESHOLD
          /\ ret.result[i].session_id # ret.session_id

C10_FusionOrder ==
    Retrieved =>
        LET IsLocal(n) == n.session_id = ret.session_id
            IsCross(n) == n.session_id # ret.session_id
            local == SelectSeq(ret.result, IsLocal)
            cross == SelectSeq(ret.result, IsCross)
        IN  /\ ret.result = local \o cross
            /\ [i \in 1..Len(local) |-> local[i].id] = HitIds(ret.session_hits)
            /\ [i \in 1..Len(cross) |-> cross[i].id] = HitIds(ret.global_hits)
            /\ Len(local) <= SESSION_LIMIT
            /\ Len(cross) <= GLOBAL_LIMIT
            /\ Len(ret.result) <= SESSION_LIMIT + GLOBAL_LIMIT
            /\ \A i \in 1..Len(ret.result) :
                  \E n \in memory_nodes :
                      [n EXCEPT !.last_used_at = ret.result[i].last_used_at] = ret.result[i]

\* A retrieval has returned 3 session-local nodes and then a cross-session node.
C10_Witness ==
    /\ Retrieved
    /\ Len(ret.session_hits) = SESSION_LIMIT
    /\ Len(ret.global_hits) = 1
    /\ Len(ret.result) = SESSION_LIMIT + 1

\* The messages of a session in the collection.
SessionMessages(session_id) ==
    {messages[i] : i \in {j \in 1..Len(messages) : messages[j].session_id = session_id}}

\* C11: scenario C, for any importance. A clear_memories(U) call leaves no node
\* of U in the record store and leaves the messages as they were; a node that was
\* promoted and is gone is in the result of no later retrieve_context; no call
\* removes or changes a message, and get_recent_messages with a limit that
\* covers the session returns every message of the session.
C11_ScenarioC ==
    [][/\ (ret'.op = "clear_memories" /\ Truthy(ret'.user_id)) =>
             /\ \A n \in memory_nodes' : n.user_id # ret'.user_id
             /\ messages' = messages
       /\ (ret'.op = "retrieve_context") =>
             \A m \in (1..memIds) \ NodeIds :
                 \A i \in 1..Len(ret'.result) : ret'.result[i].id # m
       /\ SubSeq(messages', 1, Len(messages)) = messages
       /\ (ret'.op = "get_recent_messages"
            /\ ret'.limit >= Cardinality(SessionMessages(ret'.session_id))) =>
             Range(ret'.result) = SessionMessages(ret'.session_id)]_vars

\* After M1 was promoted and cleared and a message added, the user has promoted
\* again and a retrieval has returned the new node only.
C11_Witness ==
    /\ Retrieved
    /\ memIds = 2
    /\ NodeIds = {2}
    /\ ResultIds = <<2>>
    /\ messages # <<>>

\* C12: a clear_memories call that directly follows a clear_memories call with
\* the same user_id deletes zero nodes and leaves the record store, the index
\* and the messages as the first call left them.
C12_ClearTwiceIdempotent ==
    [][(/\ ret.op = "clear_memories"
        /\ ret'.op = "clear_memories"
        /\ ret'.user_id = ret.user_id) =>
            /\ ret'.deleted_count = 0
            /\ memory_nodes' = memory_nodes
            /\ points' = points
            /\ messages' = messages]_vars

\* A per-user clear has deleted nothing, after an earlier clear deleted a node,
\* while a node and a point of the other user and a message are in the stores.
C12_Witness ==
    /\ ret.op = "clear_memories"
    /\ Truthy(ret.user_id)
    /\ ret.deleted_count = 0
    /\ memIds = 2
    /\ Cardinality(memory_nodes) = 1
    /\ \A n \in memory_nodes : n.user_id # ret.user_id
    /\ points # {}
    /\ messages # <<>>

\* C13: a clear_memories call given a user_id value removes exactly the nodes and
\* the points of that user_id and leaves those of every other user; only a call
\* with user_id omitted (None) removes the memories of all users.
C13_ClearRemovesExactlyThatUser ==
    [][ret'.op = "clear_memories" =>
          IF ret'.user_id = NoneValue
          THEN memory_nodes' = {} /\ points' = {}
          ELSE /\ memory_nodes' = {n \in memory_nodes : n.user_id # ret'.user_id}
               /\ points' = {p \in points : p.payload.user_id # ret'.user_id}]_vars

\* C14: messages are append-only. Every step keeps the messages there are, in
\* their order; a step that changes the collection is an add_message call, which
\* appends one message of an id no message has, returns that id and leaves nodes
\* and points as they were; and every add_message call appends.
C14_MessagesAppendOnly ==
    [][/\ Len(messages') >= Len(messages)
       /\ SubSeq(messages', 1, Len(messages)) = messages
       /\ messages' # messages =>
             /\ ret'.op = "add_message"
             /\ Len(messages') = Len(messages) + 1
             /\ \A i \in 1..Len(messages) : messages[i].id # messages'[Len(messages')].id
             /\ ret'.result = messages'[Len(messages')].id
             /\ memory_nodes' = memory_nodes
             /\ points' = points
       /\ (ret'.op = "add_message" /\ ret' # ret) => messages' # messages]_vars

\* A second message has been added while a node and a point are in the stores.
C14_Witness ==
    /\ ret.op = "add_message"
    /\ Len(messages) = 2
    /\ memory_nodes # {}
    /\ points # {}

\* C15: for every session and every limit, zero included, get_recent_messages
\* returns messages of that session only, oldest first, exactly
\* min(limit, number of messages of the session) of them, and no message of the
\* session it leaves out is newer than one it returns.
C15_RecentMessages ==
    ret.op = "get_recent_messages" =>
        LET r == ret.result
            S == SessionMessages(ret.session_id)
        IN  /\ Range(r) \subseteq S
            /\ \A i, j \in 1..Len(r) : i < j => r[i].created_at <= r[j].created_at
            /\ \A i, j \in 1..Len(r) : i # j => r[i].id # r[j].id
            /\ Len(r) = Min(ret.limit, Cardinality(S))
            /\ \A m \in S \ Range(r) : \A i \in 1..Len(r) : m.created_at <= r[i].created_at

\* C17: a retrieve_context call sets the stored last_used_at of every node it
\* returns to the time of the call, which is not before the value it had, and
\* changes nothing else: the nodes it does not return, every other field of
\* every node, the set of nodes, the messages and the points stay as they were.
C17_RetrieveTouchesReturnedOnly ==
    [][(ret'.op = "retrieve_context" /\ now' = now) =>
          /\ {n.id : n \in memory_nodes'} = NodeIds
          /\ Cardinality(memory_nodes') = Cardinality(memory_nodes)
          /\ \A n \in memory_nodes : \E n2 \in memory_nodes' :
                /\ n2.id = n.id
                /\ [n2 EXCEPT !.last_used_at = n.last_used_at] = n
                /\ IF \E i \in 1..Len(ret'.result) : ret'.result[i].id = n.id
                   THEN n2.last_used_at = now /\ n2.last_used_at >= n.last_used_at
                   ELSE n2.last_used_at = n.last_used_at
          /\ messages' = messages
          /\ points' = points]_vars

\* A retrieval at time 1 has returned a node created at time 0 and left another
\* node of time 0 out.
C17_Witness ==
    /\ Retrieved
    /\ now = 1
    /\ Len(ret.result) = 1
    /\ \E n, n2 \in memory_nodes :
          /\ n.id = ret.result[1].id
          /\ n.created_at = 0 /\ n.last_used_at = 1
          /\ n2.id # n.id
          /\ n2.last_used_at = 0
    /\ messages # <<>>

\* The first occurrences of the elements of a sequence, in their order.
RECURSIVE FirstOccurrences(_)
FirstOccurrences(seq) ==
    IF seq = <<>> THEN <<>>
    ELSE <<Head(seq)>> \o FirstOccurrences(SelectSeq(Tail(seq), LAMBDA x : x # Head(seq)))

\* C18: when a hit names a memory_id that has no node in the record store,
\* retrieve_context completes, leaves that hit out and returns the nodes of all
\* other hits in fusion order; after the call the record store still holds no
\* node of the missing id: none was created for it.
C18_LookupMissAbsorbed ==
    Retrieved =>
        LET hit_ids == FirstOccurrences(HitIds(ret.session_hits) \o HitIds(ret.global_hits))
        IN  /\ ResultIds = SelectSeq(hit_ids, LAMBDA m : m \in NodeIds)
            /\ \A m \in Range(hit_ids) :
                  (\A i \in 1..Len(ret.result) : ret.result[i].id # m) => m \notin NodeIds

\* A retrieval whose first session-local hit has no node has returned the node of
\* a later hit.
C18_Witness ==
    /\ Retrieved
    /\ Len(ret.session_hits) >= 2
    /\ HitIds(ret.session_hits)[1] \notin NodeIds
    /\ Len(ret.result) = 1
    /\ ret.result[1].id = HitIds(ret.session_hits)[2]

\* C16: under any interleaving of concurrent retrieve_context calls, no step
\* makes the stored last_used_at of a node smaller than it was.
C16_LastUsedNeverDecreases ==
    [][\A n \in memory_nodes : \A n2 \in memory_nodes' :
          n2.id = n.id => n2.last_used_at >= n.last_used_at]_vars

\* C20: with no store failure and no clear, every node of importance above 0.3
\* that promote_memory has written eventually has a point with its memory_id.
C20_EventuallyIndexed ==
    \A m \in 1..MaxLiveNodes :
        (\E n \in memory_nodes : n.id = m /\ n.importance > PROMOTION_THRESHOLD)
            ~> (EntriesOf(m) # {})

\* A node above the threshold is written and not yet indexed, its promote_memory
\* call between its two writes, while another caller's retrieve_context for the
\* node's user and session has got no hit and returned nothing.
C20_Witness ==
    \E c, d \in Callers :
        /\ calls[c].pc = "promote_index"
        /\ calls[c].importance > PROMOTION_THRESHOLD
        /\ calls[c].memory_id \in NodeIds
        /\ EntriesOf(calls[c].memory_id) = {}
        /\ calls[d].pc = "returned"
        /\ calls[d].op = "retrieve_context"
        /\ calls[d].user_id = calls[c].user_id
        /\ calls[d].session_id = calls[c].session_id
        /\ calls[d].result = <<>>

\* Caller c has returned from a promote_memory above the threshold and caller d
\* from a clear_memories.
RaceDone(c, d) ==
    /\ calls[c].pc = "returned" /\ calls[c].op = "promote_memory"
    /\ calls[c].importance > PROMOTION_THRESHOLD
    /\ calls[d].pc = "returned" /\ calls[d].op = "clear_memories"

\* The clear of caller d is for the user of the promote of caller c, or for all.
RaceSameUser(c, d) ==
    ~Truthy(calls[d].user_id) \/ calls[d].user_id = calls[c].user_id

\* C19 as stated: once a promote_memory above the threshold for user U and a
\* concurrent clear_memories(U) have both returned, the promoted node is in the
\* record store if and only if a point with its memory_id is in the index.
C19_RaceKeepsIndexInvariant ==
    \A c, d \in Callers :
        (RaceDone(c, d) /\ calls[d].user_id = calls[c].user_id) =>
            (calls[c].memory_id \in NodeIds <=> EntriesOf(calls[c].memory_id) # {})

\* C19 amended: once both calls have returned, the promoted node is in the
\* record store if and only if the delete_many of the clear did not remove it
\* (it ran before the insert), and a point with its memory_id is in the index if
\* and only if the index delete of the clear did not remove it (it ran before
\* the upsert); so node and point are both there or both gone only when each
\* delete fell on the same side of its write, and otherwise a point without node
\* or a node without point is left. A clear for another user removes neither.
C19_RaceOutcome ==
    \A c, d \in Callers :
        RaceDone(c, d) =>
            LET m == calls[c].memory_id
            IN  IF RaceSameUser(c, d)
                THEN /\ m \in NodeIds <=> calls[d].deleted_count = 0
                     /\ EntriesOf(m) # {} <=> calls[d].deleted_points = 0
                ELSE /\ m \in NodeIds
                     /\ Cardinality(EntriesOf(m)) = 1
                     /\ calls[d].deleted_count = 0
                     /\ calls[d].deleted_points = 0

\* Both calls have returned and left a point whose node the clear deleted.
C19_Witness ==
    \E c, d \in Callers :
        /\ RaceDone(c, d)
        /\ calls[d].user_id = calls[c].user_id
        /\ calls[c].memory_id \notin NodeIds
        /\ EntriesOf(calls[c].memory_id) # {}
        /\ calls[d].deleted_count = 1
        /\ calls[d].deleted_points = 0

\* C21: in every state that complete calls reach, one at a time and without
\* store failure, every point refers to a node of the record store whose
\* user_id, session_id, type and importance are those of its payload, and no two
\* points share a memory_id or a point id.
C21_PointsReferToNodes ==
    /\ \A p \in points : \E n \in memory_nodes :
          /\ n.id = p.payload.memory_id
          /\ n.user_id = p.payload.user_id
          /\ n.session_id = p.payload.session_id
          /\ n.type = p.payload.type
          /\ n.importance = p.payload.importance
    /\ \A p, q \in points :
          p # q => (p.payload.memory_id # q.payload.memory_id /\ p.id # q.id)

\* A retrieval has returned one node while the index holds two points, of two
\* users, one of them of a node promoted with its type given.
C21_Witness ==
    /\ Retrieved
    /\ Len(ret.result) = 1
    /\ Cardinality(points) = 2
    /\ \E p, q \in points :
          /\ p.payload.user_id # q.payload.user_id
          /\ p.payload.type = GivenArgs.m_type

\* C22: promote_memory writes the record store before the index. A
\* promote_memory call whose insert_one fails raises and leaves both stores and
\* the messages as they were: no node and no point of its memory_id. No failed
\* promote_memory call leaves a point of its memory_id, so every point still
\* refers to a node. An add_message call whose insert_one fails raises and leaves
\* the messages and both stores as they were: no message of its id.
C22_InsertFailureWritesNothing ==
    [][/\ (memIds' # memIds /\ ret'.raised) =>
             /\ \A p \in points' : p.payload.memory_id # ret'.memory_id
             /\ points' = points
             /\ messages' = messages
             /\ ret'.raised_at = "insert_one" =>
                   /\ memory_nodes' = memory_nodes
                   /\ \A n \in memory_nodes' : n.id # ret'.memory_id
       /\ (msgIds' # msgIds /\ ret'.raised) =>
             /\ messages' = messages
             /\ \A i \in 1..Len(messages') : messages'[i].id # ret'.result
             /\ memory_nodes' = memory_nodes
             /\ points' = points
       /\ \A p \in points' : \E n \in memory_nodes' : n.id = p.payload.memory_id]_vars

\* The insert_one of a promote_memory above the threshold has failed while the
\* stores hold a node with its point and a message.
C22_Witness ==
    /\ Promoted /\ ret.raised
    /\ ret.raised_at = "insert_one"
    /\ ret.importance > PROMOTION_THRESHOLD
    /\ ret.memory_id = 2
    /\ Cardinality(memory_nodes) = 1
    /\ Cardinality(points) = 1
    /\ messages # <<>>

====
